---- MODULE Spec2Model ----
(***************************************************************************)
(* The in-memory conversation graph of src/main.py (ConversationGraph):    *)
(* create_root, branch_from, add_message, merge_nodes, delete_node and the *)
(* prefix merge of two histories (_merge_histories).                       *)
(*                                                                         *)
(* A node's messages attribute is a Python list object.  The value of the  *)
(* list is kept in nodes[n].messages; which nodes hold the very same list  *)
(* object is kept in same_list, so that an append through one node is seen *)
(* through every node that shares the object.                              *)
(***************************************************************************)
EXTENDS Naturals, Sequences, FiniteSets, TLC

\* Longest history the model explores.
MaxLen == 2

\* Number of calls made on one graph.
MaxCalls == 3

\* Node ids a caller passes; the last one has the shape of a generated id.
NodeIds == {"ROOT", "BRANCH-1", "BRANCH-0a1b2c3d"}

\* Values uuid.uuid4().hex[:8] is drawn from, already prefixed with BRANCH-.
GeneratedIds == {"BRANCH-0a1b2c3d"}

\* Optional[str] = None
None == "None"

MessageRole == {"user", "assistant"}

Contents == {"x"}

\* @dataclass Message: equal iff role and content are equal.
Message == [role : MessageRole, content : Contents]

\* @dataclass ChatNode; node_id is the key under which the node is stored.
ChatNode(parent_id, messages) == [parent_id |-> parent_id, messages |-> messages]

RECURSIVE SeqsUpTo(_, _)
SeqsUpTo(S, n) ==
    IF n = 0 THEN {<<>>}
    ELSE LET shorter == SeqsUpTo(S, n - 1)
         IN  shorter \cup {Append(s, x) : s \in {t \in shorter : Len(t) = n - 1}, x \in S}

\* Histories within the bound.
Histories == SeqsUpTo(Message, MaxLen)

\* additional_messages arguments: no, one or two seed messages.
AdditionalMessages ==
    {<<>>} \cup {<<m>> : m \in Message} \cup {<<m1, m2>> : m1 \in Message, m2 \in Message}

VARIABLES
    nodes,      \* ConversationGraph.nodes: node id -> ChatNode
    same_list,  \* node id -> ids of the nodes whose messages is the same list object
    pre,        \* ConversationGraph.nodes as it was when the last call started
    ret,        \* the last call: operation, arguments, exception raised, value returned
    calls,      \* number of calls made so far
    limit,      \* longest history this behaviour explores
    inflight,   \* thread -> the chat() call of it that waits for the chat capability
    walk,       \* the _compute_depths call in progress
    response    \* the server's last response, or the one it is working on

vars == <<nodes, same_list, pre, ret, calls, limit, inflight, walk, response>>

\* Threads that run callers; the server handles each request on one.
Threads == {"t1", "t2"}

\* No chat() call of the thread is waiting.
Idle == [node_id |-> None, user_input |-> "", context |-> <<>>, invoked |-> 0,
         entry |-> <<>>, held |-> <<>>]

\* No _compute_depths call is in progress.
NoWalk == [pc |-> "idle", todo |-> {}, node_id |-> None, cursor |-> None,
           depth |-> 0, depths |-> <<>>]

\* The server has not answered anything.
NoResponse == [method |-> "", status |-> 0, flash |-> "", shown |-> None]

\* Nobody is inside chat() or _compute_depths().
Quiet ==
    /\ inflight = [t \in Threads |-> Idle]
    /\ walk = NoWalk

Empty == [n \in {} |-> None]

\* ConversationGraph() alone, or the graph the server module builds when it
\* is loaded: graph = ConversationGraph(); root_id = graph.create_root().
InitGraph ==
    /\ pre = Empty
    /\ calls = 0
    /\ Quiet
    /\ response = NoResponse
    /\ \/ /\ nodes = Empty
          /\ same_list = Empty
          /\ ret = [op |-> "__init__", raised |-> "", value |-> None]
       \/ /\ nodes = [n \in {"ROOT"} |-> ChatNode(None, <<>>)]
          /\ same_list = [n \in {"ROOT"} |-> {"ROOT"}]
          /\ ret = [op |-> "create_root", node_id |-> "ROOT", raised |-> "",
                    value |-> "ROOT"]

Init == InitGraph /\ limit = MaxLen

\* self.nodes[node_id] = node
Put(ns, node_id, node) ==
    [n \in DOMAIN ns \cup {node_id} |-> IF n = node_id THEN node ELSE ns[n]]

\* node_id's messages attribute is bound to a list object created just now.
NewList(sl, node_id) ==
    [n \in DOMAIN sl \cup {node_id} |-> IF n = node_id THEN {node_id} ELSE sl[n] \ {node_id}]

\* _require_node raising the wrong exception type.
RequireNodeValueError(node_id) ==
    IF node_id \notin DOMAIN nodes THEN "ValueError" ELSE ""

\* _require_node: the exception it raises for node_id, "" when it returns the node.
_require_node(node_id) ==
    IF node_id \notin DOMAIN nodes THEN "KeyError" ELSE ""

\* A call that raised: the graph is as it was.
Raise(call, exc) ==
    /\ ret' = [call EXCEPT !.raised = exc, !.value = None]
    /\ pre' = nodes
    /\ calls' = calls + 1
    /\ UNCHANGED <<nodes, same_list>>

Return(call, value, ns, sl) ==
    /\ nodes' = ns
    /\ same_list' = sl
    /\ pre' = nodes
    /\ calls' = calls + 1
    /\ ret' = [call EXCEPT !.raised = "", !.value = value]

create_root(node_id) ==
    LET call == [op |-> "create_root", node_id |-> node_id, raised |-> "", value |-> None]
    IN  Return(call, node_id,
               Put(nodes, node_id, ChatNode(None, <<>>)),
               NewList(same_list, node_id))

\* BranchMessages that never carries the history over.
BranchMessagesNotCarried(original_msgs, carry_messages, additional_messages) ==
    additional_messages

\* BranchMessages with the seed messages put before the carried history.
BranchMessagesSeedFirst(original_msgs, carry_messages, additional_messages) ==
    additional_messages \o (IF carry_messages THEN original_msgs ELSE <<>>)

\* list(original.messages) if carry_messages else [], then the appended
\* additional_messages (a tuple is turned into the Message it describes).
BranchMessages(original_msgs, carry_messages, additional_messages) ==
    (IF carry_messages THEN original_msgs ELSE <<>>) \o additional_messages

\* BranchList without the copy (messages = original.messages): the new node
\* holds the list object of the node it was branched from.
BranchListShared(sl, node_id, branch_id, carry_messages) ==
    IF carry_messages
    THEN LET shared == sl[node_id] \cup {branch_id}
         IN  [n \in DOMAIN sl \cup {branch_id} |->
                 IF n \in shared THEN shared ELSE sl[n] \ {branch_id}]
    ELSE NewList(sl, branch_id)

\* The list object the new node holds: list(...) and [] both make a new one.
BranchList(sl, node_id, branch_id, carry_messages) ==
    NewList(sl, branch_id)

\* new_id absent: uuid is the value drawn for f"BRANCH-{uuid.uuid4().hex[:8]}".
branch_from(node_id, new_id, carry_messages, additional_messages, uuid) ==
    LET call == [op |-> "branch_from", node_id |-> node_id, new_id |-> new_id,
                 carry_messages |-> carry_messages,
                 additional_messages |-> additional_messages,
                 raised |-> "", value |-> None]
    IN  IF _require_node(node_id) # ""
        THEN Raise(call, _require_node(node_id))
        ELSE LET branch_id == IF new_id # None THEN new_id ELSE uuid
                 messages == BranchMessages(nodes[node_id].messages, carry_messages,
                                            additional_messages)
             IN  /\ Len(messages) <= limit
                 /\ Return(call, branch_id,
                           Put(nodes, branch_id, ChatNode(node_id, messages)),
                           BranchList(same_list, node_id, branch_id, carry_messages))

\* AppendMessage with the append left out.
AppendMessageDropped(ns, sl, node_id, msg) == ns

\* list.append on the list object node_id holds: every node holding that
\* object shows the new message.
AppendMessage(ns, sl, node_id, msg) ==
    [n \in DOMAIN ns |->
        IF n \in sl[node_id]
        THEN [ns[n] EXCEPT !.messages = Append(@, msg)]
        ELSE ns[n]]

add_message(node_id, role, content) ==
    LET call == [op |-> "add_message", node_id |-> node_id, role |-> role,
                 content |-> content, raised |-> "", value |-> None]
    IN  IF _require_node(node_id) # ""
        THEN Raise(call, _require_node(node_id))
        ELSE /\ Len(nodes[node_id].messages) < limit
             /\ Return(call, None,
                       AppendMessage(nodes, same_list, node_id,
                                     [role |-> role, content |-> content]),
                       same_list)

\* del self.nodes[node_id]
Remove(f, node_id) == [n \in DOMAIN f \ {node_id} |-> f[n]]

\* The for/zip/break loop of _merge_histories: the number of leading
\* positions at which the two histories hold equal messages.
RECURSIVE PrefixLen(_, _, _)
PrefixLen(target_msgs, source_msgs, i) ==
    IF /\ i < Len(target_msgs)
       /\ i < Len(source_msgs)
       /\ target_msgs[i + 1] = source_msgs[i + 1]
    THEN PrefixLen(target_msgs, source_msgs, i + 1)
    ELSE i

\* source_msgs[prefix_len:]
SliceFrom(msgs, prefix_len) == SubSeq(msgs, prefix_len + 1, Len(msgs))

\* TargetIsPrefix that forgets the source's remainder.
TargetIsPrefixNoTail(target_msgs, source_msgs, prefix_len) == target_msgs

\* return list(target_msgs) + source_msgs[prefix_len:]
TargetIsPrefix(target_msgs, source_msgs, prefix_len) ==
    target_msgs \o SliceFrom(source_msgs, prefix_len)

\* SourceIsPrefix that keeps the shorter history.
SourceIsPrefixKeepsSource(target_msgs, source_msgs) == source_msgs

\* return list(target_msgs), source being a prefix of target
SourceIsPrefix(target_msgs, source_msgs) == target_msgs

\* Disjoint that drops the source's turns.
DisjointKeepsTarget(target_msgs, source_msgs) == target_msgs

\* Disjoint that puts the source first.
DisjointSourceFirst(target_msgs, source_msgs) == source_msgs \o target_msgs

\* return list(target_msgs) + list(source_msgs)
Disjoint(target_msgs, source_msgs) == target_msgs \o source_msgs

\* Diverged that keeps the target instead of raising.
DivergedKeepsTarget(target_msgs, source_msgs) == [raised |-> "", value |-> target_msgs]

\* raise ValueError("Cannot merge: histories diverge after shared prefix")
Diverged(target_msgs, source_msgs) == [raised |-> "ValueError", value |-> <<>>]

_merge_histories(target_msgs, source_msgs) ==
    LET prefix_len == PrefixLen(target_msgs, source_msgs, 0)
    IN  IF prefix_len = Len(target_msgs) /\ prefix_len = Len(source_msgs)
        THEN [raised |-> "", value |-> target_msgs]
        ELSE IF prefix_len = Len(target_msgs)
        THEN [raised |-> "", value |-> TargetIsPrefix(target_msgs, source_msgs, prefix_len)]
        ELSE IF prefix_len = Len(source_msgs)
        THEN [raised |-> "", value |-> SourceIsPrefix(target_msgs, source_msgs)]
        ELSE IF prefix_len = 0
        THEN [raised |-> "", value |-> Disjoint(target_msgs, source_msgs)]
        ELSE Diverged(target_msgs, source_msgs)

\* Reparent without the parent_id == source_id test: every node that has a
\* parent is moved under target.
ReparentAll(ns, source_id, target_id) ==
    [n \in DOMAIN ns |->
        IF ns[n].parent_id # None
        THEN [ns[n] EXCEPT !.parent_id = target_id]
        ELSE ns[n]]

\* Reparent with the loop left out: the children keep pointing at source.
ReparentSkipped(ns, source_id, target_id) == ns

\* for node in self.nodes.values(): if node.parent_id == source_id: ...
Reparent(ns, source_id, target_id) ==
    [n \in DOMAIN ns |->
        IF ns[n].parent_id = source_id
        THEN [ns[n] EXCEPT !.parent_id = target_id]
        ELSE ns[n]]

\* DeleteSource with the delete_node call left out.
DeleteSourceSkipped(f, target_id, source_id) == f

\* DeleteSource without the source_id != target_id test.
DeleteSourceAlways(f, target_id, source_id) == Remove(f, source_id)

\* if source_id != target_id: self.delete_node(source_id)
DeleteSource(f, target_id, source_id) ==
    IF source_id # target_id THEN Remove(f, source_id) ELSE f

merge_nodes(target_id, source_id) ==
    LET call == [op |-> "merge_nodes", target_id |-> target_id,
                 source_id |-> source_id, raised |-> "", value |-> None]
    IN  IF _require_node(target_id) # ""
        THEN Raise(call, _require_node(target_id))
        ELSE IF _require_node(source_id) # ""
        THEN Raise(call, _require_node(source_id))
        ELSE LET merged == _merge_histories(nodes[target_id].messages,
                                            nodes[source_id].messages)
             IN  IF merged.raised # ""
                 THEN Raise(call, merged.raised)
                 ELSE LET assigned == [nodes EXCEPT ![target_id].messages = merged.value]
                          reparented == Reparent(assigned, source_id, target_id)
                          rebound == NewList(same_list, target_id)
                      IN  /\ Len(merged.value) <= limit
                          /\ Return(call, target_id,
                                    DeleteSource(reparented, target_id, source_id),
                                    [n \in DOMAIN DeleteSource(rebound, target_id, source_id) |->
                                        rebound[n] \cap DOMAIN DeleteSource(rebound, target_id, source_id)])

\* What a call on the graph leaves alone.
GraphCall == UNCHANGED <<limit, inflight, walk, response>>

\* The calls a caller makes, each on arguments drawn from the sets above.
CreateRoot ==
    /\ calls < MaxCalls
    /\ GraphCall
    /\ \E node_id \in NodeIds : create_root(node_id)

\* A branch_from on an absent node raises before it reads its other
\* arguments, so one choice of them is enough there.
BranchFrom ==
    /\ calls < MaxCalls
    /\ GraphCall
    /\ \E node_id \in NodeIds, new_id \in NodeIds \cup {None},
          carry_messages \in BOOLEAN, additional_messages \in AdditionalMessages,
          uuid \in GeneratedIds :
            /\ \/ node_id \in DOMAIN nodes
               \/ new_id = None /\ carry_messages /\ additional_messages = <<>>
            /\ branch_from(node_id, new_id, carry_messages, additional_messages, uuid)

AddMessage ==
    /\ calls < MaxCalls
    /\ GraphCall
    /\ \E node_id \in NodeIds, role \in MessageRole, content \in Contents :
            add_message(node_id, role, content)

MergeNodes ==
    /\ calls < MaxCalls
    /\ GraphCall
    /\ \E target_id \in NodeIds, source_id \in NodeIds :
            merge_nodes(target_id, source_id)

Next == CreateRoot \/ BranchFrom \/ AddMessage \/ MergeNodes

Spec == Init /\ [][Next]_vars

\* The same calls from a caller that never passes an id that is already in
\* the graph, and for whom no generated id is.
CreateRootFresh ==
    /\ calls < MaxCalls
    /\ GraphCall
    /\ \E node_id \in NodeIds \ DOMAIN nodes : create_root(node_id)

BranchFromFresh ==
    /\ calls < MaxCalls
    /\ GraphCall
    /\ \E node_id \in NodeIds, new_id \in NodeIds \cup {None},
          carry_messages \in BOOLEAN, additional_messages \in AdditionalMessages,
          uuid \in GeneratedIds :
            /\ \/ node_id \in DOMAIN nodes
               \/ new_id = None /\ carry_messages /\ additional_messages = <<>>
            /\ (IF new_id # None THEN new_id ELSE uuid) \notin DOMAIN nodes
            /\ branch_from(node_id, new_id, carry_messages, additional_messages, uuid)

NextFresh == CreateRootFresh \/ BranchFromFresh \/ AddMessage \/ MergeNodes

SpecFresh == Init /\ [][NextFresh]_vars

(***************************************************************************)
(* A single caller of the whole library                                    *)
(***************************************************************************)

\* The longest history a behaviour with chat() calls explores: a chat adds
\* two turns to a history.
MaxChatLen == 4

\* The list objects left once only the nodes of ns remain.
Lists(sl, ns) == [n \in DOMAIN ns |-> sl[n] \cap DOMAIN ns]

\* Deleted with the children of node_id removed as well.
DeletedWithChildren(ns, node_id) ==
    [n \in {m \in DOMAIN ns : m # node_id /\ ns[m].parent_id # node_id} |-> ns[n]]

\* del self.nodes[node_id]: nothing else is touched, children included.
Deleted(ns, node_id) == Remove(ns, node_id)

delete_node(node_id) ==
    LET call == [op |-> "delete_node", node_id |-> node_id, raised |-> "", value |-> None]
    IN  IF _require_node(node_id) # ""
        THEN Raise(call, _require_node(node_id))
        ELSE Return(call, None, Deleted(nodes, node_id),
                    Lists(same_list, Deleted(nodes, node_id)))

\* The value of a returning get_node is the node stored under node_id.
get_node(node_id) ==
    LET call == [op |-> "get_node", node_id |-> node_id, raised |-> "", value |-> None]
    IN  IF _require_node(node_id) # ""
        THEN Raise(call, _require_node(node_id))
        ELSE Return(call, nodes[node_id], nodes, same_list)

\* The texts a caller sends to chat() and the replies of the chat capability.
UserInputs == {"x", "y"}

Replies == {"x", "r"}

\* build_context with the messages taken last to first.
BuildContextReversed(ns, node_id) ==
    LET messages == ns[node_id].messages
    IN  [i \in 1..Len(messages) |->
            LET m == messages[Len(messages) + 1 - i]
            IN  [type |-> IF m.role = "user" THEN "human" ELSE "ai",
                 content |-> m.content]]

\* build_context: a HumanMessage for a user turn, an AIMessage for any other.
build_context(ns, node_id) ==
    LET messages == ns[node_id].messages
    IN  [i \in 1..Len(messages) |->
            [type |-> IF messages[i].role = "user" THEN "human" ELSE "ai",
             content |-> messages[i].content]]

\* The record of a chat() call as its caller sees it.
ChatCall(c) ==
    [op |-> "chat", node_id |-> c.node_id, user_input |-> c.user_input,
     context |-> c.context, invoked |-> c.invoked, raised |-> "", value |-> None]

\* chat() up to llm.invoke: the user turn is stored, the context is built from
\* the node and the chat capability is invoked with it (the call in progress
\* is then the invoke).  An absent node makes the first add_message raise.
ChatStart(t, node_id, user_input) ==
    /\ inflight[t] = Idle
    /\ UNCHANGED <<limit, walk>>
    /\ IF _require_node(node_id) # ""
       THEN /\ Raise(ChatCall([Idle EXCEPT !.node_id = node_id,
                                           !.user_input = user_input]),
                     _require_node(node_id))
            /\ UNCHANGED inflight
       ELSE LET added == AppendMessage(nodes, same_list, node_id,
                                       [role |-> "user", content |-> user_input])
            IN  /\ Len(nodes[node_id].messages) + 2 <= limit
                /\ nodes' = added
                /\ inflight' = [inflight EXCEPT ![t] =
                                   [node_id |-> node_id, user_input |-> user_input,
                                    context |-> build_context(added, node_id),
                                    invoked |-> 1, entry |-> nodes, held |-> added]]
                /\ calls' = calls + 1
                /\ pre' = nodes
                /\ ret' = [op |-> "invoke", context |-> build_context(added, node_id),
                           raised |-> "", value |-> None]
                /\ UNCHANGED same_list

\* llm.invoke returns reply: the second add_message stores it (or raises, the
\* node being gone) and chat() returns it.
ChatReply(t, reply) ==
    /\ inflight[t] # Idle
    /\ UNCHANGED <<limit, walk, calls>>
    /\ inflight' = [inflight EXCEPT ![t] = Idle]
    /\ pre' = inflight[t].entry
    /\ IF _require_node(inflight[t].node_id) # ""
       THEN /\ ret' = [ChatCall(inflight[t]) EXCEPT
                          !.raised = _require_node(inflight[t].node_id)]
            /\ UNCHANGED <<nodes, same_list>>
       ELSE /\ Len(nodes[inflight[t].node_id].messages) < limit
            /\ nodes' = AppendMessage(nodes, same_list, inflight[t].node_id,
                                      [role |-> "assistant", content |-> reply])
            /\ ret' = [ChatCall(inflight[t]) EXCEPT !.value = reply]
            /\ UNCHANGED same_list

\* llm.invoke raises: chat() catches nothing, so the exception reaches the
\* caller and the second add_message never runs.
ChatFail(t) ==
    /\ inflight[t] # Idle
    /\ UNCHANGED <<limit, walk, calls, nodes, same_list>>
    /\ inflight' = [inflight EXCEPT ![t] = Idle]
    /\ pre' = inflight[t].entry
    /\ ret' = [ChatCall(inflight[t]) EXCEPT !.raised = "Exception"]

\* The thread of the single caller.
Caller == "t1"

\* The caller makes one call at a time.
Solo == calls < MaxCalls /\ Quiet /\ GraphCall

SoloCreateRoot == Solo /\ CreateRoot

\* branch_from without seed messages: histories grow by add_message and chat.
SoloBranchFrom ==
    /\ Solo
    /\ \E node_id \in NodeIds, new_id \in NodeIds \cup {None},
          carry_messages \in BOOLEAN, uuid \in GeneratedIds :
            /\ node_id \in DOMAIN nodes \/ (new_id = None /\ carry_messages)
            /\ branch_from(node_id, new_id, carry_messages, <<>>, uuid)

SoloAddMessage == Solo /\ AddMessage

SoloMergeNodes == Solo /\ MergeNodes

SoloDeleteNode ==
    /\ Solo
    /\ \E node_id \in NodeIds : delete_node(node_id)

SoloGetNode ==
    /\ Solo
    /\ \E node_id \in NodeIds : get_node(node_id)

SoloChat ==
    /\ calls < MaxCalls
    /\ Quiet
    /\ UNCHANGED response
    /\ \E node_id \in NodeIds, user_input \in UserInputs :
            ChatStart(Caller, node_id, user_input)

SoloChatReply ==
    /\ UNCHANGED response
    /\ \E reply \in Replies : ChatReply(Caller, reply)

SoloChatFail == ChatFail(Caller) /\ UNCHANGED response

InitSolo == InitGraph /\ limit = MaxChatLen

NextSolo ==
    \/ SoloCreateRoot
    \/ SoloBranchFrom
    \/ SoloAddMessage
    \/ SoloMergeNodes
    \/ SoloDeleteNode
    \/ SoloGetNode
    \/ SoloChat
    \/ SoloChatReply
    \/ SoloChatFail

SpecSolo == InitSolo /\ [][NextSolo]_vars

(***************************************************************************)
(* The end-to-end script: root, chat, branch, chat, merge                  *)
(***************************************************************************)

\* A script runs its next statement only when the one before it returned.
Statement(k, op) ==
    /\ calls = k
    /\ Quiet
    /\ ret.op = op
    /\ ret.raised = ""

\* root = graph.create_root(R) on a new graph
ScriptCreateRoot ==
    /\ Statement(0, "__init__")
    /\ GraphCall
    /\ \E node_id \in NodeIds : create_root(node_id)

\* chat(llm, graph, root, x)
ScriptChatRoot ==
    /\ Statement(1, "create_root")
    /\ UNCHANGED response
    /\ \E user_input \in UserInputs : ChatStart(Caller, ret.value, user_input)

\* b = graph.branch_from(root, B)
ScriptBranchFrom ==
    /\ Statement(2, "chat")
    /\ GraphCall
    /\ \E new_id \in NodeIds \ {ret.node_id}, uuid \in GeneratedIds :
            branch_from(ret.node_id, new_id, TRUE, <<>>, uuid)

\* chat(llm, graph, b, y)
ScriptChatBranch ==
    /\ Statement(3, "branch_from")
    /\ UNCHANGED response
    /\ \E user_input \in UserInputs : ChatStart(Caller, ret.value, user_input)

\* graph.merge_nodes(root, b)
ScriptMergeNodes ==
    /\ Statement(4, "chat")
    /\ GraphCall
    /\ merge_nodes(nodes[ret.node_id].parent_id, ret.node_id)

InitScript ==
    /\ InitGraph
    /\ nodes = Empty
    /\ limit = MaxChatLen

NextScript ==
    \/ ScriptCreateRoot
    \/ ScriptChatRoot
    \/ ScriptBranchFrom
    \/ ScriptChatBranch
    \/ ScriptMergeNodes
    \/ SoloChatReply
    \/ SoloChatFail

SpecScript == InitScript /\ [][NextScript]_vars

(***************************************************************************)
(* _compute_depths, one loop iteration at a time                           *)
(***************************************************************************)

\* The largest hop count of one node the model follows.
MaxDepth == 4

\* Hop without the increment.
HopNotCounted(depth) == depth

\* depth += 1
Hop(depth) == depth + 1

\* What a step of _compute_depths leaves alone: it only reads the graph.
DepthsStep == UNCHANGED <<nodes, same_list, calls, limit, inflight>>

\* depths = {}; the for loop is about to look at every node of the graph.
DepthsCall ==
    /\ walk = NoWalk
    /\ DepthsStep
    /\ walk' = [NoWalk EXCEPT !.pc = "for", !.todo = DOMAIN nodes]
    /\ UNCHANGED <<pre, ret>>

\* for node_id in self.nodes: depth = 0; cursor = self.nodes[node_id];
\* after the last node, return depths.
DepthsFor ==
    /\ walk.pc = "for"
    /\ DepthsStep
    /\ IF walk.todo = {}
       THEN /\ walk' = NoWalk
            /\ pre' = nodes
            /\ ret' = [op |-> "_compute_depths", raised |-> "", value |-> walk.depths]
       ELSE /\ \E node_id \in walk.todo :
                 walk' = [walk EXCEPT !.pc = "while", !.todo = @ \ {node_id},
                                      !.node_id = node_id, !.cursor = node_id,
                                      !.depth = 0]
            /\ UNCHANGED <<pre, ret>>

\* while cursor.parent_id is not None: depth += 1;
\* cursor = self.nodes[cursor.parent_id] (KeyError when that node is gone);
\* after the loop, depths[node_id] = depth.
DepthsWhile ==
    /\ walk.pc = "while"
    /\ DepthsStep
    /\ IF nodes[walk.cursor].parent_id = None
       THEN /\ walk' = [walk EXCEPT !.pc = "for",
                                    !.depths = Put(@, walk.node_id, walk.depth)]
            /\ UNCHANGED <<pre, ret>>
       ELSE IF nodes[walk.cursor].parent_id \notin DOMAIN nodes
       THEN /\ walk' = NoWalk
            /\ pre' = nodes
            /\ ret' = [op |-> "_compute_depths", raised |-> "KeyError", value |-> None]
       ELSE /\ walk.depth < MaxDepth
            /\ walk' = [walk EXCEPT !.depth = Hop(@),
                                    !.cursor = nodes[walk.cursor].parent_id]
            /\ UNCHANGED <<pre, ret>>

SoloDepthsCall == Quiet /\ DepthsCall /\ UNCHANGED response

SoloDepthsFor == DepthsFor /\ UNCHANGED response

SoloDepthsWhile == DepthsWhile /\ UNCHANGED response

\* The calls that shape the graph, and _compute_depths on what they made.
NextDepths ==
    \/ SoloCreateRoot
    \/ SoloBranchFrom
    \/ SoloMergeNodes
    \/ SoloDeleteNode
    \/ SoloDepthsCall
    \/ SoloDepthsFor
    \/ SoloDepthsWhile

SpecDepths == Init /\ [][NextDepths]_vars

(***************************************************************************)
(* The server: index() on one shared graph, a thread per request           *)
(***************************************************************************)

\* root_id = graph.create_root()
root_id == "ROOT"

\* The texts of the form fields user_input and branch_seed, after strip().
FormTexts == {"", "x"}

\* The POST branch ends with flash(...) and a redirect: the category is
\* "danger" when the try block raised (except Exception), kind otherwise.
Redirect(raised, kind) ==
    [method |-> "POST", status |-> 302,
     flash |-> IF raised # "" THEN "danger" ELSE kind, shown |-> None]

\* A request that does not wait for one of its own steps is handled while no
\* page is being rendered.
Handling == calls < MaxCalls /\ walk = NoWalk

\* action == "chat": an empty text is answered with a warning; otherwise the
\* handler enters chat(llm, graph, node_id, user_input) on its thread.
PostChat ==
    /\ Handling
    /\ \E t \in Threads, node_id \in NodeIds, user_input \in FormTexts :
          IF user_input = ""
          THEN /\ inflight[t] = Idle
               /\ response' = Redirect("", "warning")
               /\ UNCHANGED <<nodes, same_list, pre, ret, calls, limit, inflight, walk>>
          ELSE /\ ChatStart(t, node_id, user_input)
               /\ response' = IF _require_node(node_id) # ""
                              THEN Redirect(_require_node(node_id), "info")
                              ELSE response

\* The chat capability answers the chat() of a request.
PostChatReply ==
    /\ walk = NoWalk
    /\ \E t \in Threads, reply \in Replies :
          /\ ChatReply(t, reply)
          /\ response' = Redirect(_require_node(inflight[t].node_id), "info")

\* The chat capability fails the chat() of a request.
PostChatFail ==
    /\ walk = NoWalk
    /\ \E t \in Threads :
          /\ ChatFail(t)
          /\ response' = Redirect("Exception", "info")

\* action == "branch"
PostBranch ==
    /\ Handling
    /\ UNCHANGED <<limit, inflight, walk>>
    /\ \E parent_id \in NodeIds, new_id \in NodeIds \cup {None},
          carry \in BOOLEAN, seed_text \in FormTexts, uuid \in GeneratedIds :
          /\ parent_id \in DOMAIN nodes \/ (new_id = None /\ carry /\ seed_text = "")
          /\ branch_from(parent_id, new_id, carry,
                         IF seed_text = "" THEN <<>>
                         ELSE <<[role |-> "user", content |-> seed_text]>>,
                         uuid)
          /\ response' = Redirect(_require_node(parent_id), "success")

\* action == "merge": without a source the handler only warns.
PostMerge ==
    /\ Handling
    /\ UNCHANGED <<limit, inflight, walk>>
    /\ \E target \in NodeIds, source \in NodeIds \cup {None} :
          IF source = None
          THEN /\ response' = Redirect("", "warning")
               /\ UNCHANGED <<nodes, same_list, pre, ret, calls>>
          ELSE /\ merge_nodes(target, source)
               /\ response' = Redirect(ret'.raised, "success")

\* GET: selected_node is the requested node, or root_id when none is asked
\* for or the one asked for is not in the graph.
Selected(requested) ==
    IF requested # None /\ requested \in DOMAIN nodes THEN requested ELSE root_id

\* GET up to _render_svg: _serialize_messages(selected_node) runs outside any
\* try block, so the KeyError of get_node ends the request; otherwise
\* _render_svg calls _compute_depths.
Get ==
    /\ walk = NoWalk
    /\ UNCHANGED <<nodes, same_list, pre, ret, calls, limit, inflight>>
    /\ \E requested \in NodeIds \cup {None} :
          IF _require_node(Selected(requested)) # ""
          THEN /\ response' = [method |-> "GET", status |-> 500, flash |-> "",
                               shown |-> Selected(requested)]
               /\ UNCHANGED walk
          ELSE /\ response' = [method |-> "GET", status |-> 0, flash |-> "",
                               shown |-> Selected(requested)]
               /\ walk' = [NoWalk EXCEPT !.pc = "for", !.todo = DOMAIN nodes]

\* The page is sent when _compute_depths has returned; an exception of it
\* ends the request.
Rendered ==
    IF walk'.pc # "idle" THEN response
    ELSE [response EXCEPT !.status = IF ret'.raised = "" THEN 200 ELSE 500]

GetDepthsFor == DepthsFor /\ response' = Rendered

GetDepthsWhile == DepthsWhile /\ response' = Rendered

\* server.py: graph = ConversationGraph(); root_id = graph.create_root()
InitServer ==
    /\ InitGraph
    /\ DOMAIN nodes = {root_id}
    /\ limit = MaxChatLen

NextServer ==
    \/ PostChat
    \/ PostChatReply
    \/ PostChatFail
    \/ PostBranch
    \/ PostMerge
    \/ Get
    \/ GetDepthsFor
    \/ GetDepthsWhile

SpecServer == InitServer /\ [][NextServer]_vars

(***************************************************************************)
(* Claims                                                                  *)
(***************************************************************************)

\* The last call was merge_nodes and it returned.
MergeReturned == ret.op = "merge_nodes" /\ ret.raised = ""

\* Following parent_id from n for at most k steps reaches a node without parent.
RECURSIVE ReachesRoot(_, _)
ReachesRoot(n, k) ==
    IF n \notin DOMAIN nodes THEN FALSE
    ELSE IF nodes[n].parent_id = None THEN TRUE
    ELSE IF k = 0 THEN FALSE
    ELSE ReachesRoot(nodes[n].parent_id, k - 1)

\* C1: with callers that never reuse an id and never call delete_node, the
\* graph is a forest: from every node the parent_id chain reaches a node with
\* parent_id = None, so no node is its own ancestor.
C1_Forest ==
    \A n \in DOMAIN nodes : ReachesRoot(n, Cardinality(DOMAIN nodes))

\* C2: every parent_id that is not None is the id of a node in the graph.
C2_ParentsExist ==
    \A n \in DOMAIN nodes :
        nodes[n].parent_id # None => nodes[n].parent_id \in DOMAIN nodes

\* A merge has just deleted a source that another node pointed at.
C2_Witness ==
    /\ MergeReturned
    /\ ret.source_id # ret.target_id
    /\ ret.source_id \notin DOMAIN nodes
    /\ \E n \in DOMAIN nodes : pre[n].parent_id = ret.source_id

\* C3: after a merge_nodes(target, source) that returned, with source #
\* target, every remaining node whose parent_id was source has parent_id
\* target, source is absent, target is present and target was returned.
C3_MergeReparents ==
    (MergeReturned /\ ret.source_id # ret.target_id) =>
        /\ \A n \in DOMAIN pre \ {ret.source_id} :
              pre[n].parent_id = ret.source_id =>
                  n \in DOMAIN nodes /\ nodes[n].parent_id = ret.target_id
        /\ ret.source_id \notin DOMAIN nodes
        /\ ret.target_id \in DOMAIN nodes
        /\ ret.value = ret.target_id

\* A merge moved a child of source, a third node, under target.
C3_Witness ==
    /\ MergeReturned
    /\ ret.source_id # ret.target_id
    /\ ret.value = ret.target_id
    /\ \E n \in DOMAIN nodes \ {ret.target_id} :
          pre[n].parent_id = ret.source_id /\ nodes[n].parent_id = ret.target_id

\* The last call was merge_nodes on two nodes that were both in the graph.
MergeOfNodes ==
    /\ ret.op = "merge_nodes"
    /\ ret.target_id \in DOMAIN pre
    /\ ret.source_id \in DOMAIN pre

\* The histories target and source had when the last merge_nodes started.
TargetBefore == pre[ret.target_id].messages
SourceBefore == pre[ret.source_id].messages

\* a is a prefix of b.
IsPrefix(a, b) ==
    /\ Len(a) <= Len(b)
    /\ \A i \in 1..Len(a) : a[i] = b[i]

\* The length p of the longest common prefix of a and b.
CommonPrefix(a, b) ==
    CHOOSE p \in 0..Len(a) :
        /\ p <= Len(b)
        /\ \A i \in 1..p : a[i] = b[i]
        /\ p = Len(a) \/ p = Len(b) \/ a[p + 1] # b[p + 1]

\* The children of source were moved under target and source was deleted.
SourceFolded ==
    /\ ret.source_id \notin DOMAIN nodes
    /\ \A n \in DOMAIN pre \ {ret.source_id} :
          pre[n].parent_id = ret.source_id =>
              n \in DOMAIN nodes /\ nodes[n].parent_id = ret.target_id

\* C4: when the histories share a prefix of length p with 0 < p < len(target)
\* and 0 < p < len(source), merge_nodes raises the merge-conflict error and
\* the graph is exactly as it was.
C4_ConflictChangesNothing ==
    (/\ MergeOfNodes
     /\ 0 < CommonPrefix(TargetBefore, SourceBefore)
     /\ CommonPrefix(TargetBefore, SourceBefore) < Len(TargetBefore)
     /\ CommonPrefix(TargetBefore, SourceBefore) < Len(SourceBefore)) =>
        /\ ret.raised = "ValueError"
        /\ nodes = pre

\* A merge of two histories that part after their first message was refused,
\* and a child of source still points at source.
C4_Witness ==
    /\ MergeOfNodes
    /\ ret.raised = "ValueError"
    /\ \E n \in DOMAIN nodes :
          pre[n].parent_id = ret.source_id /\ nodes[n].parent_id = ret.source_id
    /\ TargetBefore[1] = SourceBefore[1]
    /\ TargetBefore[2] # SourceBefore[2]
    /\ nodes[ret.source_id].messages = SourceBefore
    /\ nodes[ret.target_id].messages = TargetBefore

\* C5: when target's history is a strict prefix of source's (an empty target
\* and a non-empty source included), merge_nodes gives target its old history
\* followed by source's part past the common prefix, which is source's
\* history, and deletes source.
C5_TargetPrefixTakesSource ==
    (/\ MergeOfNodes
     /\ IsPrefix(TargetBefore, SourceBefore)
     /\ Len(TargetBefore) < Len(SourceBefore)) =>
        /\ ret.raised = ""
        /\ nodes[ret.target_id].messages =
              TargetBefore \o SubSeq(SourceBefore, Len(TargetBefore) + 1, Len(SourceBefore))
        /\ nodes[ret.target_id].messages = SourceBefore
        /\ ret.source_id \notin DOMAIN nodes

\* A non-empty target took the one message its source had on top of it.
C5_Witness ==
    /\ MergeOfNodes
    /\ ret.raised = ""
    /\ TargetBefore # <<>>
    /\ IsPrefix(TargetBefore, SourceBefore)
    /\ Len(TargetBefore) < Len(SourceBefore)
    /\ nodes[ret.target_id].messages = SourceBefore

C7_SourcePrefixKeepsTarget ==
    (MergeOfNodes /\ IsPrefix(SourceBefore, TargetBefore)) =>
        /\ ret.raised = ""
        /\ nodes[ret.target_id].messages = TargetBefore
        /\ ret.source_id # ret.target_id => SourceFolded

\* A source that was a strict prefix of target, and had a child, was merged.
C7_Witness ==
    /\ MergeOfNodes
    /\ ret.raised = ""
    /\ ret.source_id # ret.target_id
    /\ IsPrefix(SourceBefore, TargetBefore)
    /\ Len(SourceBefore) < Len(TargetBefore)
    /\ \E n \in DOMAIN nodes \ {ret.target_id} : pre[n].parent_id = ret.source_id
    /\ SourceFolded

\* C8: merge_nodes(A, A) on a node of the graph returns A and leaves the
\* graph as it was, whatever A's history: same history, A still present, no
\* parent_id changed; so repeating it changes nothing either.
C8_SelfMergeChangesNothing ==
    (MergeOfNodes /\ ret.source_id = ret.target_id) =>
        /\ ret.raised = ""
        /\ ret.value = ret.target_id
        /\ nodes = pre

\* A node with a history and a child was merged into itself.
C8_Witness ==
    /\ MergeOfNodes
    /\ ret.source_id = ret.target_id
    /\ ret.raised = ""
    /\ TargetBefore # <<>>
    /\ \E n \in DOMAIN nodes \ {ret.target_id} : nodes[n].parent_id = ret.target_id

\* The last call was branch_from and it returned.
BranchReturned == ret.op = "branch_from" /\ ret.raised = ""

\* C9: after branch_from(n, carry_messages=true) without additional messages
\* the new node's history equals n's history at that instant, and an
\* add_message on one node changes the history of no other node: an append to
\* n does not show in the new node, nor one to the new node in n.
C9_BranchIsSnapshot ==
    /\ (BranchReturned /\ ret.carry_messages /\ ret.additional_messages = <<>>) =>
          nodes[ret.value].messages = pre[ret.node_id].messages
    /\ (ret.op = "add_message" /\ ret.raised = "") =>
          \A m \in DOMAIN nodes \ {ret.node_id} : nodes[m].messages = pre[m].messages

\* A node was appended to while a child of it held a copy of its non-empty
\* history: the child still has the history as it was.
C9_Witness ==
    /\ ret.op = "add_message"
    /\ ret.raised = ""
    /\ pre[ret.node_id].messages # <<>>
    /\ \E m \in DOMAIN nodes \ {ret.node_id} :
          /\ nodes[m].parent_id = ret.node_id
          /\ nodes[m].messages = pre[ret.node_id].messages
          /\ nodes[m].messages # nodes[ret.node_id].messages

\* The history branch_from is to give the new node.
BranchedHistory ==
    (IF ret.carry_messages THEN pre[ret.node_id].messages ELSE <<>>)
        \o ret.additional_messages

\* C10 as stated: branch_from on an existing source creates a node with
\* parent_id = source whose history is the source's history (carry_messages)
\* or empty, followed by additional_messages in order; the source node's
\* history and parent are unchanged.
C10_SourceNeverChanged ==
    BranchReturned =>
        /\ nodes[ret.value].parent_id = ret.node_id
        /\ nodes[ret.value].messages = BranchedHistory
        /\ nodes[ret.node_id] = pre[ret.node_id]

\* C10 as amended: the same, the source node's history and parent being
\* unchanged when the new node's id is not the source's id.
C10_BranchCreatesNode ==
    BranchReturned =>
        /\ nodes[ret.value].parent_id = ret.node_id
        /\ nodes[ret.value].messages = BranchedHistory
        /\ ret.value # ret.node_id => nodes[ret.node_id] = pre[ret.node_id]

\* A branch carried a non-empty history and was seeded with a message more.
C10_Witness ==
    /\ BranchReturned
    /\ ret.carry_messages
    /\ pre[ret.node_id].messages # <<>>
    /\ ret.additional_messages # <<>>
    /\ ret.value # ret.node_id
    /\ Len(nodes[ret.value].messages) =
          Len(pre[ret.node_id].messages) + Len(ret.additional_messages)

\* The last call named a node that was not in the graph.
AbsentId ==
    \/ /\ ret.op \in {"add_message", "get_node", "delete_node", "branch_from"}
       /\ ret.node_id \notin DOMAIN pre
    \/ /\ ret.op = "merge_nodes"
       /\ ret.target_id \notin DOMAIN pre \/ ret.source_id \notin DOMAIN pre

\* C11: add_message, get_node, delete_node, branch_from (absent source node)
\* and merge_nodes (absent target or absent source) called with an id that is
\* not in the graph raise the not-found error (KeyError) and leave the graph
\* as it was; a merge of an absent source into an existing target changes
\* nothing.
C11_AbsentIdRaises ==
    AbsentId => /\ ret.raised = "KeyError"
                /\ nodes = pre

\* A merge of an absent source into an existing target that holds messages
\* has raised.
C11_Witness ==
    /\ ret.op = "merge_nodes"
    /\ ret.target_id \in DOMAIN pre
    /\ ret.source_id \notin DOMAIN pre
    /\ pre[ret.target_id].messages # <<>>
    /\ ret.raised # ""

\* The turns of a history, each as the (type, text) pair the chat capability
\* is given for it.
AsContext(messages) ==
    [i \in 1..Len(messages) |->
        <<IF messages[i].role = "user" THEN "human" ELSE "ai", messages[i].content>>]

\* The user turn a chat() call stores.
UserTurn == [role |-> "user", content |-> ret.user_input]

\* The last call was chat() and the chat capability failed in it.
ChatFailed == ret.op = "chat" /\ ret.raised = "Exception"

\* The last call was chat() and it returned.
ChatReturned == ret.op = "chat" /\ ret.raised = ""

\* C12: when the chat capability fails during chat(graph, node, text) the
\* failure reaches the caller, the capability has been invoked once and not
\* again, the node's history is its history at entry followed by one user
\* turn with the given text and no assistant turn, and nothing else in the
\* graph has changed.
C12_FailureLeavesUserTurn ==
    ChatFailed =>
        /\ ret.value = None
        /\ ret.invoked = 1
        /\ ret.node_id \in DOMAIN pre
        /\ nodes = [pre EXCEPT ![ret.node_id].messages = Append(@, UserTurn)]

\* The chat capability failed on a node that had a history, beside another node.
C12_Witness ==
    /\ ChatFailed
    /\ pre[ret.node_id].messages # <<>>
    /\ DOMAIN pre # {ret.node_id}
    /\ nodes # pre

\* C13: a chat(graph, node, text) of a single caller that returns has invoked
\* the chat capability exactly once, with the node's history in stored order
\* ending in the new user turn; the node's history is then its history at
\* entry, the user turn and the assistant turn with the reply; the returned
\* text is that reply; no other node's history or parent has changed.
C13_ChatAppendsExchange ==
    ChatReturned =>
        /\ ret.invoked = 1
        /\ ret.node_id \in DOMAIN pre
        /\ [i \in 1..Len(ret.context) |->
               <<ret.context[i].type, ret.context[i].content>>]
             = AsContext(Append(pre[ret.node_id].messages, UserTurn))
        /\ nodes = [pre EXCEPT ![ret.node_id].messages =
                       @ \o <<UserTurn, [role |-> "assistant", content |-> ret.value]>>]
        /\ ret.value \in Replies

\* A chat returned on a node whose history held a turn with another text,
\* beside another node.
C13_Witness ==
    /\ ChatReturned
    /\ pre[ret.node_id].messages # <<>>
    /\ pre[ret.node_id].messages[1].content # ret.user_input
    /\ ret.value # ret.user_input
    /\ DOMAIN pre # {ret.node_id}

\* The script has run k statements and the last of them, op, returned.
Ran(k, op) == calls = k /\ ret.op = op /\ ret.raised = ""

\* C14: from create_root(R): after chat(R, x) R has two turns; after
\* branch_from(R, B) B has the same two turns; after chat(B, y) B has four
\* turns and R still two; merge_nodes(R, B) then returns, R holds the four
\* turns B had, in order, and B is not in the graph.
C14_EndToEnd ==
    /\ Ran(2, "chat") => Len(nodes[ret.node_id].messages) = 2
    /\ Ran(3, "branch_from") =>
          /\ Len(nodes[ret.value].messages) = 2
          /\ nodes[ret.value].messages = nodes[ret.node_id].messages
    /\ Ran(4, "chat") =>
          /\ Len(nodes[ret.node_id].messages) = 4
          /\ Len(nodes[nodes[ret.node_id].parent_id].messages) = 2
    /\ (calls = 5 /\ ret.op = "merge_nodes") =>
          /\ ret.raised = ""
          /\ Len(pre[ret.source_id].messages) = 4
          /\ nodes[ret.target_id].messages = pre[ret.source_id].messages
          /\ ret.source_id \notin DOMAIN nodes

\* The script has run to its end, with two different texts sent.
C14_Witness ==
    /\ calls = 5
    /\ ret.op = "merge_nodes"
    /\ DOMAIN nodes = {ret.target_id}
    /\ nodes[ret.target_id].messages[1].content # nodes[ret.target_id].messages[3].content

\* The last call was _compute_depths, on a graph in which every parent chain
\* reaches a node without parent.
DepthsOfForest ==
    /\ ret.op = "_compute_depths"
    /\ walk = NoWalk
    /\ nodes = pre
    /\ \A n \in DOMAIN nodes : ReachesRoot(n, Cardinality(DOMAIN nodes))

\* C15: on a graph in which every parent chain reaches a root,
\* _compute_depths returns a depth for every node of the graph: 0 for a node
\* without parent, one more than its parent's depth for every other node.
C15_DepthsOfForest ==
    DepthsOfForest =>
        /\ ret.raised = ""
        /\ DOMAIN ret.value = DOMAIN nodes
        /\ \A n \in DOMAIN nodes :
              ret.value[n] = IF nodes[n].parent_id = None
                             THEN 0
                             ELSE ret.value[nodes[n].parent_id] + 1

\* The depths of a chain of three nodes have been returned.
C15_Witness ==
    /\ DepthsOfForest
    /\ ret.raised = ""
    /\ \E n \in DOMAIN nodes : ret.value[n] = 2

\* C16: _compute_depths always terminates: on a parent chain that never
\* reaches a node without parent it fails instead of looping.  A walk that
\* stops on a cycle has stopped by the time it has made as many hops as the
\* graph has nodes, so: a walk still going has made fewer hops than that.
C16_WalkStopsOnCycle ==
    walk.pc = "while" => walk.depth < Cardinality(DOMAIN nodes)

\* C17: a branch_from called without new_id never overwrites a node: the id
\* it generates is not the id of a node already in the graph, the graph has
\* exactly one node more afterwards, and every node that was there keeps its
\* history and its parent.
C17_GeneratedIdIsNew ==
    (ret.op = "branch_from" /\ ret.raised = "" /\ ret.new_id = None) =>
        /\ ret.value \notin DOMAIN pre
        /\ DOMAIN nodes = DOMAIN pre \cup {ret.value}
        /\ \A n \in DOMAIN pre : nodes[n] = pre[n]

\* The last call was delete_node on a node of the graph.
DeleteReturned == ret.op = "delete_node" /\ ret.node_id \in DOMAIN pre

\* C18: delete_node(id) on an existing node removes that node and nothing
\* else: every other node keeps its history and its parent_id, also the
\* nodes whose parent_id is id, which then name an absent node.
C18_DeleteRemovesOnlyNode ==
    DeleteReturned =>
        /\ ret.raised = ""
        /\ DOMAIN nodes = DOMAIN pre \ {ret.node_id}
        /\ \A n \in DOMAIN nodes : nodes[n] = pre[n]

\* A node with a history and a child has been deleted; the child, itself
\* with a history, is still there.
C18_Witness ==
    /\ DeleteReturned
    /\ pre[ret.node_id].messages # <<>>
    /\ \E n \in DOMAIN nodes :
          /\ nodes[n].parent_id = ret.node_id
          /\ nodes[n].messages # <<>>

\* C19: the server serializes access to its graph: while a request is inside
\* chat, between storing the user turn and storing the reply, no other
\* request changes the graph, so the graph is still as that chat left it
\* (the user turn is the last turn of its node, and the node is there).
C19_ChatHoldsGraph ==
    \A t \in Threads : inflight[t] # Idle => nodes = inflight[t].held

\* C20: no request of the server ends with an error that escapes the
\* handler, and the node a rendered page shows is a node of the graph.
C20_NoErrorEscapes ==
    /\ response.status # 500
    /\ response.method = "GET" => response.shown \in DOMAIN nodes

\* a is a suffix of b.
IsSuffix(a, b) ==
    /\ Len(a) <= Len(b)
    /\ \A i \in 1..Len(a) : a[i] = b[Len(b) - Len(a) + i]

\* The history target has after the last merge_nodes.
TargetAfter == nodes[ret.target_id].messages

\* C21: a merge_nodes(target, source) that returns loses no turn: the history
\* target had is a prefix of the history it has now, the history source had
\* is a prefix or a suffix of it, and it is no longer than the two together.
C21_MergeLosesNoTurn ==
    MergeReturned =>
        /\ IsPrefix(TargetBefore, TargetAfter)
        /\ IsPrefix(SourceBefore, TargetAfter) \/ IsSuffix(SourceBefore, TargetAfter)
        /\ Len(TargetAfter) <= Len(TargetBefore) + Len(SourceBefore)

\* A merge of two histories with different first turns has returned: the
\* source's turns follow the target's, and are not a prefix of the result.
C21_Witness ==
    /\ MergeReturned
    /\ TargetBefore # <<>>
    /\ SourceBefore # <<>>
    /\ TargetBefore[1] # SourceBefore[1]
    /\ ~IsPrefix(SourceBefore, TargetAfter)
    /\ IsSuffix(SourceBefore, TargetAfter)

\* The last call was a merge_nodes of two different nodes and it returned.
MergedTwoNodes == MergeReturned /\ ret.source_id # ret.target_id

\* C22: a merge_nodes(target, source) with source != target that returns
\* changes only what it names: the nodes are the nodes there were without
\* source, no node but target has another history, and no node has another
\* parent_id unless its parent_id was source.
C22_MergeChangesOnlyNamed ==
    MergedTwoNodes =>
        /\ DOMAIN nodes = DOMAIN pre \ {ret.source_id}
        /\ \A n \in DOMAIN nodes \ {ret.target_id} :
              nodes[n].messages = pre[n].messages
        /\ \A n \in DOMAIN nodes :
              nodes[n].parent_id # pre[n].parent_id => pre[n].parent_id = ret.source_id

\* A merge that made target's history longer has returned beside a third
\* node that has a history of its own and a parent other than source.
C22_Witness ==
    /\ MergedTwoNodes
    /\ TargetAfter # TargetBefore
    /\ \E n \in DOMAIN nodes \ {ret.target_id} :
          /\ pre[n].messages # <<>>
          /\ pre[n].parent_id \notin {None, ret.source_id}

====
